---- MODULE Spec2Model ----
(***************************************************************************)
(* A model of the VF MAC-location scripts.                                 *)
(*                                                                         *)
(*   variant = "async" : AsyncVFEngine.py, one asyncio task per switch,    *)
(*                       gathered by main and run by asyncio.run.          *)
(*   variant = "seq"   : VFEngine.py, one loop over the end devices and,   *)
(*                       inside it, one loop over the hosts.               *)
(*                                                                         *)
(* Device output is a text: a sequence of lines, each line a sequence of   *)
(* whitespace-separated tokens.  str.split() is the concatenation of the   *)
(* lines' tokens, str.split(":") cuts at the tokens that end in a colon,   *)
(* str.lower() is a table over the tokens.  The devices answer each        *)
(* command with any text of a small set, or fail the command.              *)
(***************************************************************************)
EXTENDS Integers, Sequences, FiniteSets, TLC

\* ------------------------------------------------------------------ bounds
\* Number of switches in switches.yml / hosts.yml.
NumSwitches == 2
\* Largest number of entries of end_devices.yml.
MaxMacs == 2

SwitchPool == <<"10.0.0.1", "10.0.0.2", "10.0.0.3">>
MacPool == <<"0000.1111.2222", "aabb.ccdd.eeff", "0011.2233.4455">>
\* A MAC of the network that is no target of the run.
OtherMac == "0000.1111.2223"

HostList == SubSeq(SwitchPool, 1, NumSwitches)
Switches == {HostList[i] : i \in 1..NumSwitches}
MacLists == {SubSeq(MacPool, 1, n) : n \in 1..MaxMacs}

AccessPort == "Gi1/0/1"
UplinkPort == "Gi1/0/24"

\* ------------------------------------------------------------------- texts
RECURSIVE Flatten(_)
\* str.split(): every whitespace-separated token of the text, line breaks
\* being whitespace too.
Flatten(text) ==
    IF text = << >> THEN << >> ELSE Head(text) \o Flatten(Tail(text))

Line4(mac, p) == <<"10", mac, "DYNAMIC", p>>

\* What a switch may print for 'show mac address-table | incl <mac>'.
LookupReplies(mac) ==
    { << >>,
      <<Line4(mac, AccessPort)>>,
      <<Line4(mac, UplinkPort)>>,
      <<Line4(OtherMac, UplinkPort)>>,
      <<<<"10", mac, "DYNAMIC">>>>,
      <<Line4(mac, UplinkPort), Line4(mac, AccessPort)>> }

ModeLine(words) == <<"Operational", "Mode:">> \o words

\* What a switch may print for
\* 'show interface <port> switchport | incl Operational Mode'.
ModeReplies ==
    { << >>,
      <<ModeLine(<<"static", "access">>)>>,
      <<ModeLine(<<"Static", "Access">>)>>,
      <<ModeLine(<<"static", "access", "(suspended)">>)>>,
      <<ModeLine(<<"trunk">>)>>,
      <<<<"%", "Invalid", "input">>>> }

\* str.lower() of one token.
LowerTok(tok) ==
    CASE tok = "Static" -> "static"
      [] tok = "Access" -> "access"
      [] tok = "DYNAMIC" -> "dynamic"
      [] OTHER -> tok

Lower(toks) == [i \in 1..Len(toks) |-> LowerTok(toks[i])]

EndsWithColon(tok) == tok \in {"Mode:", "Name:"}

RECURSIVE SplitColon(_, _)
\* str.split(":"): the pieces between the colons; cur is the piece being read.
SplitColon(toks, cur) ==
    IF toks = << >> THEN <<cur>>
    ELSE IF EndsWithColon(Head(toks))
         THEN <<Append(cur, Head(toks))>> \o SplitColon(Tail(toks), << >>)
         ELSE SplitColon(Tail(toks), Append(cur, Head(toks)))

\* 'access' in s
ContainsAccess(toks) == \E i \in 1..Len(toks) : toks[i] = "access"

\* ------------------------------------------------- AsyncVFEngine.py parsers
None == [kind |-> "none"]
Raise(e) == [kind |-> "raise", exc |-> e]

\* create_mac_address_dictionary with the fields of the line taken in the
\* wrong order: the type where the port belongs.
create_mac_address_dictionary_WrongField(result) ==
    IF result # << >>
    THEN LET toks == Flatten(result) IN
         IF Len(toks) # 4
         THEN Raise("ValueError")
         ELSE [kind |-> "dict", mac |-> toks[2], vlan |-> toks[1],
               type |-> toks[4], port |-> toks[3]]
    ELSE None

\* The body of create_mac_address_dictionary after the command returned.
create_mac_address_dictionary(result) ==
    IF result # << >>
    THEN LET toks == Flatten(result) IN
         IF Len(toks) # 4
         THEN Raise("ValueError")
         ELSE [kind |-> "dict", mac |-> toks[2], vlan |-> toks[1],
               type |-> toks[3], port |-> toks[4]]
    ELSE None

\* The body of get_switchport_operational_mode after the command returned.
get_switchport_operational_mode(result) ==
    IF result # << >>
    THEN LET parts == SplitColon(Flatten(result), << >>) IN
         IF Len(parts) < 2
         THEN Raise("IndexError")
         ELSE [kind |-> "str", val |-> parts[2]]
    ELSE None

\* The test of line 95 without its containment check: any mode text counts
\* as an access mode.
IsAccessMode_AnyMode(mode) ==
    IF mode.kind = "str" THEN "yes" ELSE "AttributeError"

\* The test of line 95 on the value get_switchport_operational_mode returned.
IsAccessMode(mode) ==
    IF mode.kind = "str"
    THEN IF ContainsAccess(Lower(mode.val)) THEN "yes" ELSE "no"
    ELSE "AttributeError"

\* ------------------------------------------------------ VFEngine.py parsers
\* The fields of the regular expression of line 76, token by token.
IsVlanTok(tok) == tok \in {"10", "20"}
IsMacTok(tok) == tok \in {MacPool[i] : i \in 1..Len(MacPool)} \cup {OtherMac}
IsWordTok(tok) == tok \in {"DYNAMIC", "STATIC", "Mac", "Address", "Type", "Ports"}

\* re.search(regex, line): the leftmost place of the line where the four
\* fields follow each other, 0 when there is none.
RegexSearch(line) ==
    LET hits == {i \in 1..(Len(line) - 3) :
                    /\ IsVlanTok(line[i])
                    /\ IsMacTok(line[i + 1])
                    /\ IsWordTok(line[i + 2])}
    IN IF hits = {} THEN 0 ELSE CHOOSE i \in hits : \A j \in hits : i <= j

RECURSIVE SeqDictionary(_, _)
\* The loop of lines 82-91: every matching line stores its entry under its
\* MAC, replacing what an earlier line stored there.
SeqDictionary(lines, dict) ==
    IF lines = << >> THEN dict
    ELSE LET line == Head(lines)
             i == RegexSearch(line)
         IN IF i = 0
            THEN SeqDictionary(Tail(lines), dict)
            ELSE LET e == [kind |-> "dict", mac |-> line[i + 1], vlan |-> line[i],
                           type |-> line[i + 2], port |-> line[i + 3]]
                     rest == {d \in dict : d.mac # e.mac}
                 IN SeqDictionary(Tail(lines), rest \cup {e})

\* VFEngine.create_mac_address_dictionary after the command returned: the
\* dictionary as the set of its entries, at most one per MAC.
seq_create_mac_address_dictionary(result) == SeqDictionary(result, {})

HasModeLabel(line) ==
    \E i \in 1..(Len(line) - 1) : line[i] = "Operational" /\ line[i + 1] = "Mode:"

RECURSIVE SeqModeScan(_)
\* The loop of lines 115-117; falling off its end returns None.
SeqModeScan(lines) ==
    IF lines = << >> THEN None
    ELSE IF HasModeLabel(Head(lines))
         THEN [kind |-> "str", val |-> SplitColon(Head(lines), << >>)[2]]
         ELSE SeqModeScan(Tail(lines))

\* VFEngine.get_switchport_operational_mode after the command returned.
seq_get_switchport_operational_mode(result) == SeqModeScan(result)

\* Lines 187-189 with the test of the concurrent variant, a containment
\* check, in the place of the comparison.
SeqIsAccessMode_Contains(mode) ==
    IF mode.kind = "str"
    THEN IF ContainsAccess(Lower(mode.val)) THEN "yes" ELSE "no"
    ELSE "AttributeError"

\* Lines 187-189: .lower() of the returned value and the comparison with
\* 'static access'.
SeqIsAccessMode(mode) ==
    IF mode.kind = "str"
    THEN IF Lower(mode.val) = <<"static", "access">> THEN "yes" ELSE "no"
    ELSE "AttributeError"

HeaderLine == <<"Vlan", "Mac", "Address", "Type", "Ports">>

\* What a switch may print for the commands of showmacaddrtable.j2.
TableReplies ==
    { << >>,
      <<HeaderLine, Line4(MacPool[1], AccessPort)>>,
      <<HeaderLine, Line4(OtherMac, UplinkPort), <<"10", MacPool[1], "DYNAMIC">>>>,
      <<HeaderLine, Line4(MacPool[1], UplinkPort), Line4(MacPool[1], AccessPort)>>,
      <<HeaderLine, Line4(MacPool[1], AccessPort), Line4(MacPool[2], UplinkPort)>> }

SwitchportText(admin, oper) ==
    << <<"Name:", "Gi">>,
       <<"Administrative", "Mode:">> \o admin,
       ModeLine(oper) >>

\* What a switch may print for the commands of showintswitchport.j2.
SwitchportReplies ==
    { << >>,
      SwitchportText(<<"static", "access">>, <<"static", "access">>),
      SwitchportText(<<"static", "access">>, <<"Static", "Access">>),
      SwitchportText(<<"static", "access">>, <<"static", "access", "(suspended)">>),
      SwitchportText(<<"dynamic", "auto">>, <<"trunk">>),
      <<<<"%", "Invalid", "input">>>> }

\* ------------------------------------------------------------------- state
VARIABLES
    variant,    \* which script runs
    maclist,    \* devices['end_devices'], the MAC of each entry
    bad,        \* the inventory entry that lacks a key, if there is one
    pcMain,     \* where main (and asyncio.run around it) stands
    task,       \* per switch: the state of its find_mac_address_on_switch task
    idx,        \* per switch: the position of the for loop in maclist
    cur,        \* per switch: mac_dict of the MAC being processed
    exc,        \* per switch: the exception its task ended with
    gatherExc,  \* the exception asyncio.gather hands to main
    attempts,   \* per switch: connections attempted
    opens,      \* per switch: sessions opened
    closes,     \* per switch: sessions closed
    out,        \* per switch: the messages printed about it
    log,        \* per switch: the commands sent and what came back
    devi,       \* VFEngine.py: the position of the outer loop in end_devices
    hostj       \* VFEngine.py: the position of the inner loop in host_list

vars == <<variant, maclist, bad, pcMain, task, idx, cur, exc, gatherExc,
          attempts, opens, closes, out, log, devi, hostj>>

NoExc == "none"
ConnectErrors == {"Unreachable", "Timeout", "AuthFailed"}

Msg(kind, mac, p) == [msg |-> kind, mac |-> mac, port |-> p]
Cmd(kind, mac, p, ok, reply) ==
    [cmd |-> kind, mac |-> mac, port |-> p, ok |-> ok, reply |-> reply]

\* An inventory is well formed, or one entry of switch_list (host_list) lacks
\* 'address' or 'platform', or one entry of end_devices lacks 'MAC'.
BadEntries ==
    {[kind |-> "none", at |-> 0]}
        \cup {[kind |-> "switch", at |-> k] : k \in 1..NumSwitches}
        \cup {[kind |-> "mac", at |-> i] : i \in 1..MaxMacs}

BadSwitch(k) == bad.kind = "switch" /\ bad.at = k
BadMac(i) == bad.kind = "mac" /\ bad.at = i

Init ==
    /\ variant \in {"async", "seq"}
    /\ maclist \in MacLists
    /\ bad \in {b \in BadEntries : b.kind = "mac" => b.at <= Len(maclist)}
    /\ pcMain = "load"
    /\ task = [s \in Switches |-> "none"]
    /\ idx = [s \in Switches |-> 0]
    /\ cur = [s \in Switches |-> None]
    /\ exc = [s \in Switches |-> NoExc]
    /\ gatherExc = NoExc
    /\ attempts = [s \in Switches |-> 0]
    /\ opens = [s \in Switches |-> 0]
    /\ closes = [s \in Switches |-> 0]
    /\ out = [s \in Switches |-> << >>]
    /\ log = [s \in Switches |-> << >>]
    /\ devi = 0
    /\ hostj = 0

\* ------------------------------------------------- AsyncVFEngine.py actions
\* main up to the await of gather: one task per switch is created.
MainCreateTasks ==
    /\ variant = "async"
    /\ pcMain = "load"
    /\ bad.kind # "switch"
    /\ pcMain' = "gather"
    /\ task' = [s \in Switches |-> "created"]
    /\ UNCHANGED <<variant, maclist, bad, idx, cur, exc, gatherExc, attempts,
                   opens, closes, out, log, devi, hostj>>

\* The list comprehension of lines 157-162 reaches a switch entry without
\* 'address' or 'platform': KeyError in main, before gather. The tasks made for
\* the entries before it have not run yet.
MainKeyError ==
    /\ variant = "async"
    /\ pcMain = "load"
    /\ bad.kind = "switch"
    /\ pcMain' = "raised"
    /\ task' = [s \in Switches |->
                   IF \E k \in 1..(bad.at - 1) : HostList[k] = s
                   THEN "created" ELSE "none"]
    /\ UNCHANGED <<variant, maclist, bad, idx, cur, exc, gatherExc, attempts,
                   opens, closes, out, log, devi, hostj>>

\* The task of switch s leaves the async with block by exception e: __aexit__
\* closes the session, the task ends with e, and gather passes the first
\* exception of any task on to main.
TaskFails(s, e, newlog) ==
    /\ task' = [task EXCEPT ![s] = "failed"]
    /\ exc' = [exc EXCEPT ![s] = e]
    /\ gatherExc' = IF gatherExc = NoExc THEN e ELSE gatherExc
    /\ closes' = [closes EXCEPT ![s] = @ + 1]
    /\ log' = [log EXCEPT ![s] = newlog]
    /\ UNCHANGED <<variant, maclist, bad, pcMain, idx, cur, attempts, opens, out, devi, hostj>>

\* The loop without its advance: the same MAC is looked up again.
NextMac_SameMac(s, msgs, newlog) ==
    /\ out' = [out EXCEPT ![s] = @ \o msgs]
    /\ log' = [log EXCEPT ![s] = newlog]
    /\ cur' = [cur EXCEPT ![s] = None]
    /\ task' = [task EXCEPT ![s] = "lookup"]
    /\ UNCHANGED <<variant, maclist, bad, pcMain, idx, exc, gatherExc, attempts, opens,
                   closes, devi, hostj>>

\* The for loop of the task of switch s goes on to the next MAC after having
\* printed msgs; past the last MAC the async with block is left and the session
\* closed.
NextMac(s, msgs, newlog) ==
    /\ out' = [out EXCEPT ![s] = @ \o msgs]
    /\ log' = [log EXCEPT ![s] = newlog]
    /\ cur' = [cur EXCEPT ![s] = None]
    /\ IF idx[s] < Len(maclist)
       THEN /\ idx' = [idx EXCEPT ![s] = @ + 1]
            /\ task' = [task EXCEPT ![s] = "lookup"]
            /\ UNCHANGED closes
       ELSE /\ task' = [task EXCEPT ![s] = "done"]
            /\ closes' = [closes EXCEPT ![s] = @ + 1]
            /\ UNCHANGED idx
    /\ UNCHANGED <<variant, maclist, bad, pcMain, exc, gatherExc, attempts, opens, devi, hostj>>

\* netdev.create(...).__aenter__ succeeds: the session is open.
ConnectOk(s) ==
    /\ variant = "async"
    /\ pcMain = "gather"
    /\ task[s] = "created"
    /\ attempts' = [attempts EXCEPT ![s] = @ + 1]
    /\ opens' = [opens EXCEPT ![s] = @ + 1]
    /\ out' = [out EXCEPT ![s] = Append(@, Msg("connected", "", ""))]
    /\ idx' = [idx EXCEPT ![s] = 1]
    /\ task' = [task EXCEPT ![s] = "lookup"]
    /\ UNCHANGED <<variant, maclist, bad, pcMain, cur, exc, gatherExc, closes, log, devi, hostj>>

\* netdev.create(...).__aenter__ raises: no session, the task ends with the
\* exception.
ConnectFails(s) ==
    /\ variant = "async"
    /\ pcMain = "gather"
    /\ task[s] = "created"
    /\ \E e \in ConnectErrors :
        /\ attempts' = [attempts EXCEPT ![s] = @ + 1]
        /\ task' = [task EXCEPT ![s] = "failed"]
        /\ exc' = [exc EXCEPT ![s] = e]
        /\ gatherExc' = IF gatherExc = NoExc THEN e ELSE gatherExc
    /\ UNCHANGED <<variant, maclist, bad, pcMain, idx, cur, opens, closes, out, log, devi, hostj>>

\* Lines 84-92 with a command that returned text.
LookupReturns(s) ==
    /\ variant = "async"
    /\ pcMain = "gather"
    /\ task[s] = "lookup"
    /\ ~BadMac(idx[s])
    /\ LET mac_str == maclist[idx[s]] IN
       \E result \in LookupReplies(mac_str) :
        LET mac_dict == create_mac_address_dictionary(result)
            newlog == Append(log[s], Cmd("mac", mac_str, "", TRUE, result))
        IN
        CASE mac_dict.kind = "raise" -> TaskFails(s, mac_dict.exc, newlog)
          [] mac_dict.kind = "none" ->
                NextMac(s, <<Msg("not_found", mac_str, "")>>, newlog)
          [] mac_dict.kind = "dict" /\ mac_dict.mac = mac_str ->
                /\ cur' = [cur EXCEPT ![s] = mac_dict]
                /\ task' = [task EXCEPT ![s] = "mode"]
                /\ out' = [out EXCEPT ![s] =
                              Append(@, Msg("checking", mac_str, mac_dict.port))]
                /\ log' = [log EXCEPT ![s] = newlog]
                /\ UNCHANGED <<variant, maclist, bad, pcMain, idx, exc, gatherExc,
                               attempts, opens, closes, devi, hostj>>
          [] OTHER -> NextMac(s, << >>, newlog)

\* mac['MAC'] of line 84 on an entry without 'MAC': KeyError inside the async
\* with block, the session being open.
MacKeyError(s) ==
    /\ variant = "async"
    /\ pcMain = "gather"
    /\ task[s] = "lookup"
    /\ BadMac(idx[s])
    /\ TaskFails(s, "KeyError", log[s])

\* connection.send_command raises (the command timed out, the channel died).
CommandFails(s) ==
    /\ variant = "async"
    /\ pcMain = "gather"
    /\ task[s] \in {"lookup", "mode"}
    /\ task[s] = "lookup" => ~BadMac(idx[s])
    /\ LET mac_str == maclist[idx[s]]
           p == IF task[s] = "mode" THEN cur[s].port ELSE ""
           c == IF task[s] = "mode" THEN "mode" ELSE "mac"
       IN TaskFails(s, "SessionError",
                    Append(log[s], Cmd(c, mac_str, p, FALSE, << >>)))

\* Lines 93-98 with a command that returned text.
ModeReturns(s) ==
    /\ variant = "async"
    /\ pcMain = "gather"
    /\ task[s] = "mode"
    /\ LET mac_str == maclist[idx[s]]
           p == cur[s].port
       IN
       \E reply \in ModeReplies :
        LET result == get_switchport_operational_mode(reply)
            newlog == Append(log[s], Cmd("mode", mac_str, p, TRUE, reply))
            access == IF result.kind = "raise" THEN result.exc
                      ELSE IsAccessMode(result)
        IN
        CASE access = "yes" -> NextMac(s, <<Msg("located", mac_str, p)>>, newlog)
          [] access = "no" -> NextMac(s, <<Msg("ignoring", mac_str, p)>>, newlog)
          [] OTHER -> TaskFails(s, access, newlog)

AllSettled ==
    \A s \in Switches : task[s] \in {"none", "done", "failed", "cancelled"}

\* gather's future has every result: main returns, asyncio.run returns.
MainReturns ==
    /\ variant = "async"
    /\ pcMain = "gather"
    /\ \A s \in Switches : task[s] = "done"
    /\ pcMain' = "returned"
    /\ UNCHANGED <<variant, maclist, bad, task, idx, cur, exc, gatherExc, attempts,
                   opens, closes, out, log, devi, hostj>>

\* gather's future has an exception: it is raised in main at line 164, main
\* ends, and asyncio.run turns to the tasks that are left.
MainRaises ==
    /\ variant = "async"
    /\ pcMain = "gather"
    /\ gatherExc # NoExc
    /\ pcMain' = "raised"
    /\ UNCHANGED <<variant, maclist, bad, task, idx, cur, exc, gatherExc, attempts,
                   opens, closes, out, log, devi, hostj>>

\* The operator's interrupt (SIGINT) arrives while main awaits gather:
\* asyncio.run of line 168 gives up main and turns to the tasks that are left.
Interrupt ==
    /\ variant = "async"
    /\ pcMain = "gather"
    /\ pcMain' = "interrupted"
    /\ UNCHANGED <<variant, maclist, bad, task, idx, cur, exc, gatherExc, attempts,
                   opens, closes, out, log, devi, hostj>>

\* A cancelled task that ends without __aexit__ having closed its session.
TaskCancelled_LeavesOpen(s) ==
    /\ variant = "async"
    /\ pcMain \in {"raised", "interrupted"}
    /\ task[s] \in {"created", "lookup", "mode"}
    /\ task' = [task EXCEPT ![s] = "cancelled"]
    /\ UNCHANGED <<variant, maclist, bad, pcMain, idx, cur, exc, gatherExc, attempts,
                   opens, closes, out, log, devi, hostj>>

\* asyncio.run cancels a task that main left running: CancelledError is thrown
\* at its await, __aexit__ closes its session if it has one.
TaskCancelled(s) ==
    /\ variant = "async"
    /\ pcMain \in {"raised", "interrupted"}
    /\ task[s] \in {"created", "lookup", "mode"}
    /\ task' = [task EXCEPT ![s] = "cancelled"]
    /\ closes' = [closes EXCEPT ![s] = IF task[s] = "created" THEN @ ELSE @ + 1]
    /\ UNCHANGED <<variant, maclist, bad, pcMain, idx, cur, exc, gatherExc, attempts,
                   opens, out, log, devi, hostj>>

\* asyncio.run re-raises main's exception, or KeyboardInterrupt after an
\* interrupt, once the cancelled tasks are through.
RunRaises ==
    /\ variant = "async"
    /\ pcMain \in {"raised", "interrupted"}
    /\ AllSettled
    /\ pcMain' = IF pcMain = "raised" THEN "crashed" ELSE "stopped"
    /\ UNCHANGED <<variant, maclist, bad, task, idx, cur, exc, gatherExc, attempts,
                   opens, closes, out, log, devi, hostj>>

\* ------------------------------------------------------ VFEngine.py actions
ConnectMessage(e) ==
    CASE e = "AuthFailed" -> "auth_failed"
      [] e = "Timeout" -> "timed_out"
      [] OTHER -> "check_ssh"

\* Where the loops of lines 156 and 159 stand after the body of the inner loop
\* ended without break.
AfterHost ==
    IF hostj < NumSwitches THEN <<"seq_connect", devi, hostj + 1>>
    ELSE IF devi < Len(maclist) THEN <<"seq_connect", devi + 1, 1>>
    ELSE <<"returned", devi, hostj>>

\* The loops after a match when line 191 does not leave the inner loop.
AfterBreak_NoBreak == AfterHost

\* Where they stand after the break of line 191.
AfterBreak ==
    IF devi < Len(maclist) THEN <<"seq_connect", devi + 1, 1>>
    ELSE <<"returned", devi, hostj>>

SeqGoto(where) ==
    /\ pcMain' = where[1]
    /\ devi' = where[2]
    /\ hostj' = where[3]

\* main up to the first connection: the inventory is loaded.
SeqStart ==
    /\ variant = "seq"
    /\ pcMain = "load"
    /\ SeqGoto(<<"seq_connect", 1, 1>>)
    /\ UNCHANGED <<variant, maclist, bad, task, idx, cur, exc, gatherExc, attempts,
                   opens, closes, out, log>>

\* The loops stand at an entry that lacks a key: device['MAC'] of line 158, or
\* host["platform"] and host["address"] of lines 161-162.
SeqBadEntry == BadMac(devi) \/ BadSwitch(hostj)

\* KeyError at line 158, 161 or 162: nothing in main catches it.
SeqKeyError ==
    /\ variant = "seq"
    /\ pcMain = "seq_connect"
    /\ SeqBadEntry
    /\ exc' = [exc EXCEPT ![HostList[hostj]] = "KeyError"]
    /\ pcMain' = "crashed"
    /\ UNCHANGED <<variant, maclist, bad, task, idx, cur, gatherExc, attempts,
                   opens, closes, out, log, devi, hostj>>

\* ConnectHandler returns a connection (lines 165-178).
SeqConnectOk ==
    /\ variant = "seq"
    /\ pcMain = "seq_connect"
    /\ ~SeqBadEntry
    /\ LET s == HostList[hostj] IN
        /\ attempts' = [attempts EXCEPT ![s] = @ + 1]
        /\ opens' = [opens EXCEPT ![s] = @ + 1]
        /\ out' = [out EXCEPT ![s] = Append(@, Msg("connected", maclist[devi], ""))]
    /\ pcMain' = "seq_table"
    /\ UNCHANGED <<variant, maclist, bad, task, idx, cur, exc, gatherExc, closes,
                   log, devi, hostj>>

\* ConnectHandler raises one of the three exceptions of lines 171-176.
SeqConnectFails ==
    /\ variant = "seq"
    /\ pcMain = "seq_connect"
    /\ ~SeqBadEntry
    /\ LET s == HostList[hostj] IN
       \E e \in ConnectErrors :
        /\ attempts' = [attempts EXCEPT ![s] = @ + 1]
        /\ out' = [out EXCEPT ![s] =
                      Append(@, Msg(ConnectMessage(e), maclist[devi], ""))]
    /\ SeqGoto(AfterHost)
    /\ UNCHANGED <<variant, maclist, bad, task, idx, cur, exc, gatherExc, opens,
                   closes, log>>

\* Lines 180-185 with a command that returned text.
SeqTableReturns ==
    /\ variant = "seq"
    /\ pcMain = "seq_table"
    /\ LET s == HostList[hostj]
           mac == maclist[devi]
       IN
       \E result \in TableReplies :
        LET mac_dict == seq_create_mac_address_dictionary(result)
            found == {d \in mac_dict : d.mac = mac}
        IN
        /\ log' = [log EXCEPT ![s] = Append(@, Cmd("mac", mac, "", TRUE, result))]
        /\ IF found # {}
           THEN LET e == CHOOSE d \in found : TRUE IN
                /\ cur' = [cur EXCEPT ![s] = e]
                /\ out' = [out EXCEPT ![s] = Append(@, Msg("checking", mac, e.port))]
                /\ pcMain' = "seq_mode"
                /\ UNCHANGED <<devi, hostj>>
           ELSE /\ SeqGoto(AfterHost)
                /\ UNCHANGED <<cur, out>>
    /\ UNCHANGED <<variant, maclist, bad, task, idx, exc, gatherExc, attempts, opens,
                   closes>>

\* Lines 186-193 with a command that returned text.
SeqModeReturns ==
    /\ variant = "seq"
    /\ pcMain = "seq_mode"
    /\ LET s == HostList[hostj]
           mac == maclist[devi]
           p == cur[s].port
       IN
       \E reply \in SwitchportReplies :
        LET access == SeqIsAccessMode(seq_get_switchport_operational_mode(reply)) IN
        /\ log' = [log EXCEPT ![s] = Append(@, Cmd("mode", mac, p, TRUE, reply))]
        /\ cur' = [cur EXCEPT ![s] = None]
        /\ CASE access = "yes" ->
                  /\ out' = [out EXCEPT ![s] = Append(@, Msg("located", mac, p))]
                  /\ SeqGoto(AfterBreak)
                  /\ UNCHANGED exc
             [] access = "no" ->
                  /\ out' = [out EXCEPT ![s] = Append(@, Msg("ignoring", mac, p))]
                  /\ SeqGoto(AfterHost)
                  /\ UNCHANGED exc
             [] OTHER ->
                  /\ exc' = [exc EXCEPT ![s] = access]
                  /\ pcMain' = "crashed"
                  /\ UNCHANGED <<out, devi, hostj>>
    /\ UNCHANGED <<variant, maclist, bad, task, idx, gatherExc, attempts, opens, closes>>

\* connection.send_config_set raises: nothing in main catches it.
SeqCommandFails ==
    /\ variant = "seq"
    /\ pcMain \in {"seq_table", "seq_mode"}
    /\ LET s == HostList[hostj]
           p == IF pcMain = "seq_mode" THEN cur[s].port ELSE ""
           c == IF pcMain = "seq_mode" THEN "mode" ELSE "mac"
       IN
        /\ log' = [log EXCEPT ![s] =
                      Append(@, Cmd(c, maclist[devi], p, FALSE, << >>))]
        /\ exc' = [exc EXCEPT ![s] = "SessionError"]
    /\ pcMain' = "crashed"
    /\ UNCHANGED <<variant, maclist, bad, task, idx, cur, gatherExc, attempts, opens,
                   closes, out, devi, hostj>>

Next ==
    \/ MainCreateTasks
    \/ MainKeyError
    \/ \E s \in Switches : ConnectOk(s)
    \/ \E s \in Switches : ConnectFails(s)
    \/ \E s \in Switches : LookupReturns(s)
    \/ \E s \in Switches : ModeReturns(s)
    \/ \E s \in Switches : CommandFails(s)
    \/ \E s \in Switches : MacKeyError(s)
    \/ MainReturns
    \/ MainRaises
    \/ Interrupt
    \/ \E s \in Switches : TaskCancelled(s)
    \/ RunRaises
    \/ SeqStart
    \/ SeqConnectOk
    \/ SeqConnectFails
    \/ SeqKeyError
    \/ SeqTableReturns
    \/ SeqModeReturns
    \/ SeqCommandFails

Spec == Init /\ [][Next]_vars

\* The event loop that asyncio.run drives until the cancelled tasks are
\* through runs every task that is ready, and asyncio.run then raises.
FairSpec ==
    /\ Spec
    /\ \A s \in Switches : WF_vars(TaskCancelled(s))
    /\ WF_vars(RunRaises)

\* ================================================================== claims
\* Vocabulary of the claims, stated on the printed messages and on the device
\* texts themselves, not on what the parsers made of them.

\* The run is over: main returned, or asyncio.run / the interpreter re-raised.
RunOver == pcMain \in {"returned", "crashed"}

\* Every inventory entry has its keys.
WellFormed == bad.kind = "none"

MatchKinds == {"located"}
NonMatchKinds == {"not_found", "ignoring"}
FailureKinds == {"auth_failed", "timed_out", "check_ssh"}
OutcomeKinds == MatchKinds \cup NonMatchKinds \cup FailureKinds

\* The places of out[s] that hold a message of one of the kinds about mac.
Places(s, mac, kinds) ==
    {k \in 1..Len(out[s]) : out[s][k].mac = mac /\ out[s][k].msg \in kinds}

Targets == {maclist[i] : i \in 1..Len(maclist)}

\* The text holds a forwarding-table line vlan, mac, type, port for mac on p.
HasEntryFor(text, mac, p) ==
    \E l \in 1..Len(text) :
        /\ Len(text[l]) = 4
        /\ text[l][2] = mac
        /\ text[l][4] = p

HasEntry(text, mac) == \E p \in {AccessPort, UplinkPort} : HasEntryFor(text, mac, p)

\* The text holds an Operational Mode line whose value has the word access,
\* in any letter case.
SaysAccess(text) ==
    \E l \in 1..Len(text) : \E i \in 1..(Len(text[l]) - 2) :
        /\ text[l][i] = "Operational"
        /\ text[l][i + 1] = "Mode:"
        /\ \E k \in (i + 2)..Len(text[l]) :
              text[l][k] \in {"access", "Access", "ACCESS"}

\* The lookup for mac was sent to s.
Attempted(s, mac) ==
    \E i \in 1..Len(log[s]) : log[s][i].cmd = "mac" /\ log[s][i].mac = mac

\* C1: a completed fleet run of AsyncVFEngine.py has exactly one outcome for
\* every (switch, mac) pair, and a failure outcome per MAC for a switch whose
\* connect failed.
\* Stated for inventories whose entries all have their keys.
C1_Coverage ==
    (variant = "async" /\ WellFormed /\ RunOver) =>
        \A s \in Switches : \A mac \in Targets :
            /\ Cardinality(Places(s, mac, OutcomeKinds)) = 1
            /\ exc[s] \in ConnectErrors =>
                  Cardinality(Places(s, mac, FailureKinds)) = 1

\* C2: when the session to switch a fails to open, the task of any other
\* switch b that meets no failure of its own has run to the end of the MAC
\* list by the end of the run, with an outcome for every MAC.
\* Stated for inventories whose entries all have their keys.
C2_Isolation ==
    (variant = "async" /\ WellFormed /\ RunOver) =>
        \A a \in Switches : \A b \in Switches \ {a} :
            (exc[a] \in ConnectErrors /\ exc[b] = NoExc) =>
                /\ task[b] = "done"
                /\ \A mac \in Targets : Places(b, mac, OutcomeKinds) # {}

\* C3: a MAC is declared located on a port of a switch only if a lookup on
\* that switch answered with an entry for that MAC on that port and, after it,
\* the switchport status asked for that port answered with an access mode;
\* every other combination of answers declares no match.
C3_NoFalsePositive ==
    \A s \in Switches : \A k \in 1..Len(out[s]) :
        out[s][k].msg = "located" =>
            \E i \in 1..Len(log[s]) : \E j \in (i + 1)..Len(log[s]) :
                /\ log[s][i].cmd = "mac"
                /\ log[s][i].ok
                /\ log[s][i].mac = out[s][k].mac
                /\ HasEntryFor(log[s][i].reply, out[s][k].mac, out[s][k].port)
                /\ log[s][j].cmd = "mode"
                /\ log[s][j].ok
                /\ log[s][j].mac = out[s][k].mac
                /\ log[s][j].port = out[s][k].port
                /\ SaysAccess(log[s][j].reply)

\* C3 witness: the concurrent prober has declared one MAC located on a switch
\* and has ignored another one there, found on a port that is no access port.
C3_Witness ==
    /\ variant = "async"
    /\ \E s \in Switches :
        /\ \E k \in 1..Len(out[s]) : out[s][k].msg = "located"
        /\ \E k \in 1..Len(out[s]) : out[s][k].msg = "ignoring"

\* C4: at the end of a run every (switch, mac) pair whose lookup was sent has
\* exactly one outcome, unless its task was cancelled from outside.
\* Stated for inventories whose entries all have their keys.
C4_ExactlyOneOutcome ==
    (WellFormed /\ RunOver) =>
        \A s \in Switches : \A mac \in Targets :
            (Attempted(s, mac) /\ task[s] # "cancelled") =>
                Cardinality(Places(s, mac, OutcomeKinds)) = 1

\* C5: whenever the concurrent variant's forwarding-table parser returns an
\* entry for a device answer, the MAC of the entry is the MAC that was queried.
C5_ParserKeepsQuery ==
    variant = "async" =>
        \A s \in Switches : \A i \in 1..Len(log[s]) :
            (log[s][i].cmd = "mac" /\ log[s][i].ok) =>
                LET d == create_mac_address_dictionary(log[s][i].reply) IN
                d.kind = "dict" => d.mac = log[s][i].mac

\* C6: main has not returned or raised to its caller while a task is still
\* unsettled, and no task is ever cancelled.
\* Stated for inventories whose entries all have their keys.
C6_NoFailFast ==
    (variant = "async" /\ WellFormed
        /\ pcMain \in {"returned", "raised", "crashed"}) =>
        \A s \in Switches : task[s] \in {"done", "failed"}

\* C7: at the end of a run every session that was opened has been closed.
\* Stated for inventories whose entries all have their keys.
C7_SessionsClosed ==
    (WellFormed /\ RunOver) => \A s \in Switches : closes[s] = opens[s]

\* C8: at most one connection is attempted and at most one session opened per
\* switch, however many MACs are searched.
C8_OneSessionPerSwitch ==
    \A s \in Switches : attempts[s] <= 1 /\ opens[s] <= 1

\* A lookup for mac on s was answered and the answer does not name mac at all.
NotOnSwitch(s, mac) ==
    \E i \in 1..Len(log[s]) :
        /\ log[s][i].cmd = "mac"
        /\ log[s][i].mac = mac
        /\ log[s][i].ok
        /\ \A l \in 1..Len(log[s][i].reply) :
              \A n \in 1..Len(log[s][i].reply[l]) : log[s][i].reply[l][n] # mac

\* The text holds an Operational Mode line.
SaysMode(text) ==
    \E l \in 1..Len(text) : \E i \in 1..(Len(text[l]) - 1) :
        text[l][i] = "Operational" /\ text[l][i + 1] = "Mode:"

\* mac was found on a port of s and the status of that port was answered with
\* a mode that is no access mode.
OnNonAccessPort(s, mac) ==
    \E i \in 1..Len(log[s]) : \E j \in (i + 1)..Len(log[s]) :
        /\ log[s][i].cmd = "mac"
        /\ log[s][i].mac = mac
        /\ log[s][i].ok
        /\ HasEntryFor(log[s][i].reply, mac, log[s][j].port)
        /\ log[s][j].cmd = "mode"
        /\ log[s][j].mac = mac
        /\ log[s][j].ok
        /\ SaysMode(log[s][j].reply)
        /\ ~SaysAccess(log[s][j].reply)

\* The connection to s failed when mac was to be searched there.
ConnectFailedFor(s, mac) ==
    IF variant = "async" THEN exc[s] \in ConnectErrors
    ELSE Places(s, mac, FailureKinds) # {}

\* C9: at the end of a run, a MAC that no switch has in its table is reported
\* as not found, a MAC found on a port that is no access port is reported as
\* ignored there, and a MAC that could not be searched on a switch because the
\* connection failed is reported as such for that switch; the three kinds of
\* report are different messages.
\* Stated for inventories whose entries all have their keys.
C9_ReportsKeptApart ==
    (WellFormed /\ RunOver) =>
        \A mac \in Targets :
            /\ (\A s \in Switches : NotOnSwitch(s, mac)) =>
                  \E s \in Switches : Places(s, mac, {"not_found"}) # {}
            /\ \A s \in Switches :
                  OnNonAccessPort(s, mac) => Places(s, mac, {"ignoring"}) # {}
            /\ \A s \in Switches :
                  ConnectFailedFor(s, mac) => Places(s, mac, FailureKinds) # {}

\* C10: the concurrent variant's forwarding-table parser returns normally, an
\* entry or None, for every answer of the device.
C10_ParserNeverFails ==
    variant = "async" =>
        \A s \in Switches : \A i \in 1..Len(log[s]) :
            (log[s][i].cmd = "mac" /\ log[s][i].ok) =>
                create_mac_address_dictionary(log[s][i].reply).kind # "raise"

\* The places of the lines of the text that are forwarding entries of mac.
MatchingLines(text, mac) ==
    {l \in 1..Len(text) : Len(text[l]) = 4 /\ text[l][2] = mac}

EarliestMatch(text, mac) ==
    CHOOSE l \in MatchingLines(text, mac) :
        \A n \in MatchingLines(text, mac) : l <= n

\* C11: whenever a lookup is answered with several lines for the target MAC,
\* the entry used for that MAC (the port that is then looked at) is the one
\* of the earliest of these lines.
C11_EarliestLineWins ==
    \A s \in Switches : \A i \in 1..Len(log[s]) :
        LET c == log[s][i] IN
        (c.cmd = "mac" /\ c.ok /\ Cardinality(MatchingLines(c.reply, c.mac)) > 1) =>
            \E k \in 1..Len(out[s]) :
                out[s][k] =
                    Msg("checking", c.mac, c.reply[EarliestMatch(c.reply, c.mac)][4])

\* The position of mac in the input MAC list.
ListIndex(mac) == CHOOSE i \in 1..Len(maclist) : maclist[i] = mac

\* The lookups of log[s], in the order they were sent.
LookupPlaces(s) == {i \in 1..Len(log[s]) : log[s][i].cmd = "mac"}

\* C12: on one switch the concurrent prober sends the lookups in the order of
\* the MAC list, each MAC once, a status command only directly after the
\* lookup of its own MAC, and prints the outcomes in the order of the MAC list.
C12_InputOrder ==
    variant = "async" =>
        \A s \in Switches :
            /\ \A i \in LookupPlaces(s) : \A j \in LookupPlaces(s) :
                  i < j => ListIndex(log[s][i].mac) < ListIndex(log[s][j].mac)
            /\ \A j \in 1..Len(log[s]) :
                  log[s][j].cmd = "mode" =>
                      /\ j > 1
                      /\ log[s][j - 1].cmd = "mac"
                      /\ log[s][j - 1].mac = log[s][j].mac
            /\ \A i \in 1..Len(out[s]) : \A j \in 1..Len(out[s]) :
                  (i < j /\ out[s][i].msg \in OutcomeKinds
                         /\ out[s][j].msg \in OutcomeKinds) =>
                      ListIndex(out[s][i].mac) < ListIndex(out[s][j].mac)

\* C12 witness: a concurrent task has gone through both MACs of the list on
\* one session, with a status command for the first of them.
C12_Witness ==
    /\ variant = "async"
    /\ \E s \in Switches :
        /\ task[s] = "done"
        /\ Cardinality(LookupPlaces(s)) = 2
        /\ \E j \in 1..Len(log[s]) :
              log[s][j].cmd = "mode" /\ log[s][j].mac = maclist[1]

\* The text holds an Operational Mode line whose value is the two words
\* static access, in any letter case, and nothing else.
SaysStaticAccessOnly(text) ==
    \E l \in 1..Len(text) : \E i \in 1..(Len(text[l]) - 1) :
        /\ text[l][i] = "Operational"
        /\ text[l][i + 1] = "Mode:"
        /\ Len(text[l]) = i + 3
        /\ text[l][i + 2] \in {"static", "Static", "STATIC"}
        /\ text[l][i + 3] \in {"access", "Access", "ACCESS"}

Located(s, mac) == Places(s, mac, {"located"}) # {}
Ignored(s, mac) == Places(s, mac, {"ignoring"}) # {}

\* The status answers of log[s] that give an operational mode.
ModePlaces(s) ==
    {j \in 1..Len(log[s]) :
        log[s][j].cmd = "mode" /\ log[s][j].ok /\ SaysMode(log[s][j].reply)}

\* C13 as stated: in both variants a found entry is an access-port match
\* exactly when its operational mode holds the word access, in any letter
\* case, and is ignored otherwise.
C13_SameRule ==
    \A s \in Switches : \A j \in ModePlaces(s) :
        /\ Located(s, log[s][j].mac) <=> SaysAccess(log[s][j].reply)
        /\ Ignored(s, log[s][j].mac) <=> ~SaysAccess(log[s][j].reply)

\* C13 as amended: the concurrent prober declares a match exactly when the
\* operational mode holds the word access, in any letter case; the sequential
\* variant exactly when the mode is the two words static access, in any letter
\* case; each ignores the entry otherwise.
C13_RulePerVariant ==
    \A s \in Switches : \A j \in ModePlaces(s) :
        LET access == IF variant = "async" THEN SaysAccess(log[s][j].reply)
                      ELSE SaysStaticAccessOnly(log[s][j].reply)
        IN /\ Located(s, log[s][j].mac) <=> access
           /\ Ignored(s, log[s][j].mac) <=> ~access

\* C13 witness: the sequential variant has ignored an entry whose operational
\* mode holds the word access.
C13_Witness ==
    /\ variant = "seq"
    /\ \E s \in Switches : \E j \in ModePlaces(s) :
        /\ SaysAccess(log[s][j].reply)
        /\ Ignored(s, log[s][j].mac)

\* C14: when the status command of a found entry is answered without an
\* operational mode (no output, or no such line), the concurrent prober
\* classifies the pair as a non-match and its task does not end by an
\* exception.
C14_NoModeIsNonMatch ==
    variant = "async" =>
        \A s \in Switches : \A j \in 1..Len(log[s]) :
            (log[s][j].cmd = "mode" /\ log[s][j].ok /\ ~SaysMode(log[s][j].reply)) =>
                /\ exc[s] = NoExc
                /\ Places(s, log[s][j].mac, NonMatchKinds) # {}

\* C15: a command that fails on an open session does not end the task of its
\* switch: the concurrent prober goes on with the MACs that are left.
C15_CommandFailureIsLocal ==
    variant = "async" =>
        \A s \in Switches : \A j \in 1..Len(log[s]) :
            ~log[s][j].ok => (exc[s] = NoExc /\ task[s] # "failed")

\* The commands of log[s] that were sent for mac.
CommandPlaces(s, mac) == {j \in 1..Len(log[s]) : log[s][j].mac = mac}

\* C16: in the concurrent prober a command is sent only on an opened session;
\* a status command is sent only directly after a lookup of the same MAC was
\* answered with an entry for it, and names the port of that entry; a pair
\* gets at most two commands; after a MAC was not found the loop stands at a
\* later MAC, or the task is done when it was the last one.
C16_PairStateMachine ==
    variant = "async" =>
        \A s \in Switches :
            /\ log[s] # << >> => opens[s] = 1
            /\ \A j \in 1..Len(log[s]) :
                  log[s][j].cmd = "mode" =>
                      /\ j > 1
                      /\ log[s][j - 1].cmd = "mac"
                      /\ log[s][j - 1].ok
                      /\ log[s][j - 1].mac = log[s][j].mac
                      /\ HasEntryFor(log[s][j - 1].reply, log[s][j].mac,
                                     log[s][j].port)
            /\ \A mac \in Targets : Cardinality(CommandPlaces(s, mac)) <= 2
            /\ \A i \in 1..Len(maclist) :
                  Places(s, maclist[i], {"not_found"}) # {} =>
                      IF i < Len(maclist) THEN idx[s] > i ELSE task[s] = "done"

\* C16 witness: on one switch the first MAC was not found and the second one
\* got its status command.
C16_Witness ==
    /\ variant = "async"
    /\ Len(maclist) = 2
    /\ \E s \in Switches :
        /\ Places(s, maclist[1], {"not_found"}) # {}
        /\ \E j \in 1..Len(log[s]) :
              log[s][j].cmd = "mode" /\ log[s][j].mac = maclist[2]

\* A connection to s was tried while mac was searched (sequential variant).
Contacted(s, mac) == Places(s, mac, {"connected"} \cup FailureKinds) # {}

C18_ConfigErrorBeforeSessions ==
    (variant = "async" /\ ~WellFormed) =>
        /\ pcMain # "returned"
        /\ \A s \in Switches : opens[s] = 0 /\ attempts[s] = 0

\* The interrupt has arrived.
Signalled == pcMain \in {"interrupted", "stopped"}

InFlight(s) == task[s] \in {"created", "lookup", "mode"}

Results ==
    UNION {{<<s, out[s][k].mac, out[s][k].msg>> : k \in 1..Len(out[s])} :
              s \in Switches}
        \cap (Switches \X Targets \X OutcomeKinds)

\* One fixed behaviour of the devices: the first switch is unreachable, the
\* second one accepts the session, has every MAC on AccessPort and reports
\* 'static access' for that port.
FixedReply(c) ==
    IF c.cmd = "mac" THEN <<Line4(c.mac, AccessPort)>>
    ELSE <<ModeLine(<<"static", "access">>)>>

\* Nothing that happened in the run departs from the fixed behaviour.
FixedBehaviour ==
    /\ WellFormed
    /\ attempts[HostList[1]] > 0 =>
          (opens[HostList[1]] = 0 /\ exc[HostList[1]] = "Unreachable")
    /\ opens[HostList[2]] = attempts[HostList[2]]
    /\ \A j \in 1..Len(log[HostList[2]]) :
          /\ log[HostList[2]][j].ok
          /\ log[HostList[2]][j].reply = FixedReply(log[HostList[2]][j])

\* What the run prints under the fixed behaviour when the task of the second
\* switch is through before the first one fails.
FixedResults == {<<HostList[2], mac, "located">> : mac \in Targets}

\* C20: every completed fleet run under the fixed device behaviour has printed
\* the same set of results, whatever the interleaving of the two tasks.
C20_ScheduleIndependent ==
    (variant = "async" /\ RunOver /\ FixedBehaviour) => Results = FixedResults

\* The fixed behaviour does lead to FixedResults under one interleaving; this
\* says it never does.
C20_FixedResultsNeverPrinted ==
    ~(variant = "async" /\ RunOver /\ FixedBehaviour /\ Results = FixedResults
        /\ attempts[HostList[1]] > 0)

====
